---- MODULE Spec2Model ----
(***************************************************************************)
(* A model of sfackler/rust-posix-ipc: unnamed POSIX semaphores placed in  *)
(* caller-supplied memory (src/src/sem/unnamed.rs), named semaphores       *)
(* (src/src/sem/named.rs), the raw wait/try_wait/post primitive both       *)
(* delegate to (src/src/sem/mod.rs) and the memory-map builder             *)
(* (src/src/mmap.rs) and POSIX shared memory objects (src/src/shm.rs).      *)
(*                                                                         *)
(* The library is a thin layer over libc.  The state of the model is the   *)
(* state the operating system keeps on the library's behalf (the control   *)
(* blocks, their counts) plus the handles the library has given out.  A    *)
(* semaphore handle wraps a raw pointer, so it is neither Send nor Sync:   *)
(* every handle is used by the one thread that holds it, and that thread   *)
(* is either ready, blocked inside sem_wait, or has dropped the handle.    *)
(***************************************************************************)
EXTENDS Integers, FiniteSets, Sequences, TLC

\* The largest count a control block can hold (SEM_VALUE_MAX), scaled down.
SemValueMax == 2
\* How many OS calls may fail with an error the library does not expect
\* (EINTR, EOVERFLOW, EINVAL) in one behaviour.
MaxFaults == 1

\* The width of the u64 offset MapOptions::map takes, scaled down.
U64Bits == 3
\* The longest mapping requested.
MaxLen == 1
\* The largest size set_len is asked for.
MaxShmLen == 1

Addrs  == {"a1", "a2"}          \* control-block addresses inside a mapping
KObjs  == {"k1", "k2"}          \* semaphore objects the kernel creates for sem_open
Blocks == Addrs \cup KObjs
Names  == {"/n"}                \* names in the named-semaphore registry
Owners == {"o1", "o2"}          \* unnamed::Semaphore values
Refs   == {"r1"}                \* unnamed::SemaphoreRef values
Nameds == {"s1", "s2"}          \* named::Semaphore values
Handles == Owners \cup Refs \cup Nameds
MapOrder == <<"m1", "m2">>
Maps   == {MapOrder[i] : i \in 1..Len(MapOrder)}   \* mmap::MemoryMap values
Bases  == {"b1", "b2"}          \* base addresses the kernel can hand out
Fds    == {"shm_fd", "bad_fd"}  \* what as_raw_fd() of the backing object yields
\* libc::off_t is as wide as u64 on 64-bit targets and narrower on 32-bit ones.
OffTWidths == {U64Bits, U64Bits - 1}
ShmNames == {"/shm"}            \* names of shared memory objects
Stores == {"st1", "st2"}        \* shared memory objects the kernel creates for shm_open
ShmOrder == <<"f1", "f2">>
ShmHandles == {ShmOrder[i] : i \in 1..Len(ShmOrder)}   \* shm::SharedMemory values
NoAddr == "null"
NoHandle == "none"

VARIABLES
    world,            \* which facility the program uses: "unnamed" or "named" semaphores
    lifecycle,        \* control block -> "Uninit" | "Init" | "Destroyed"
    count,            \* control block -> its count
    osDeadlock,       \* control block -> the OS reports a deadlock for waits on it
    registry,         \* name -> the kernel object it is linked to, or NoAddr
    hst,              \* handle -> "none" | "ready" | "blocked" | "dropped"
    haddr,            \* handle -> the address it wraps (RawSemaphore.0)
    debugAssertions,  \* the build: are debug_assert!s compiled in
    faults,           \* unexpected OS errors delivered so far
    initCalls,        \* control block -> successful sem_init calls
    destroyCalls,     \* control block -> sem_destroy calls
    destroyedBy,      \* handle -> sem_destroy calls issued for that handle
    initVal,          \* control block -> the value of its sem_init, while seq counts
    ledger,           \* control block -> initial value + completed posts - successful waits
    seq,              \* control block -> try_waits by an Owner since sem_init, -1 once anything else touched it
    last,             \* the operation that produced this state
    trail,            \* what the operations just before `last` were (see Trail)
    crit,             \* handle -> "off" | "out" | "in": its process's place in a lock protocol
    offTBits,         \* the target: the width of libc::off_t
    mapOpts,          \* the MapOptions value the caller is building
    mst,              \* MemoryMap -> "none" | "live" | "dropped"
    mbase,            \* MemoryMap -> its base
    mlen,             \* MemoryMap -> its len
    region,           \* base address -> length the kernel has mapped there, 0 if none
    munmaps,          \* MemoryMap -> munmap calls issued for it
    lastMap,          \* the latest mapping operation
    shmReg,           \* shared memory name -> the object it is linked to, or NoAddr
    storeSt,          \* shared memory object -> "none" | "live" | "released"
    storeLen,         \* shared memory object -> its size
    setTo,            \* shared memory object -> the size of its latest successful set_len, -1 if none
    fst,              \* SharedMemory -> "none" | "open" | "closed"
    fstore,           \* SharedMemory -> the object its descriptor refers to
    fwrite,           \* SharedMemory -> was it opened with O_RDWR
    lastShm           \* the latest shared memory operation

semVars == <<world, lifecycle, count, osDeadlock, registry, hst, haddr, debugAssertions,
             faults, initCalls, destroyCalls, destroyedBy, initVal, ledger, seq, last,
             trail, crit>>

mapVars == <<offTBits, mapOpts, mst, mbase, mlen, region, munmaps, lastMap>>

shmVars == <<shmReg, storeSt, storeLen, setTo, fst, fstore, fwrite, lastShm>>

vars == <<semVars, mapVars, shmVars>>

\* `inits` lists the pshared argument of every sem_init call the operation
\* made; `opts` is the OpenOptions value an open was called on, `name` and
\* `flags` are the arguments of its sem_open call.
NoEvent ==
    [op |-> "none", h |-> NoHandle, a |-> NoAddr, errno |-> "0", res |-> "none",
     inits |-> <<>>, name |-> "none", flags |-> {},
     opts |-> [create |-> FALSE, create_new |-> FALSE, value |-> 0]]

\* What an operation leaves in `last`: the operation, the handle and control
\* block it acted on, the errno of its libc call and what its caller saw.
Event(op, h, a, errno, res) ==
    [NoEvent EXCEPT !.op = op, !.h = h, !.a = a, !.errno = errno, !.res = res]

(***************************************************************************)
(* The code's translation of libc results (src/src/sem/mod.rs).            *)
(* r is the libc return value, errno the error libc left behind, dbg says  *)
(* whether debug_assert! is compiled in.                                   *)
(***************************************************************************)

\* Mutation: wait without the EDEADLK check.
RawWait_NoDeadlockCheck(r, errno, dbg) ==
    IF dbg /\ r # 0 THEN "panic" ELSE "unit"

\* RawSemaphore::wait: panic on EDEADLK, debug_assert_eq!(r, 0), return ().
RawWait(r, errno, dbg) ==
    IF r < 0 /\ errno = "EDEADLK" THEN "panic"
    ELSE IF dbg /\ r # 0 THEN "panic"
    ELSE "unit"

\* Mutation: try_wait without the EAGAIN arm.
RawTryWait_NoWouldBlock(r, errno, dbg) ==
    IF r < 0
    THEN CASE errno = "EDEADLK" -> "panic"
           [] OTHER -> IF dbg /\ errno # "0" THEN "panic" ELSE "Ok"
    ELSE "Ok"

\* RawSemaphore::try_wait: the match on errno when r < 0, Ok(()) otherwise.
RawTryWait(r, errno, dbg) ==
    IF r < 0
    THEN CASE errno = "EDEADLK" -> "panic"
           [] errno = "EAGAIN"  -> "WouldBlock"
           [] OTHER -> IF dbg /\ errno # "0" THEN "panic" ELSE "Ok"
    ELSE "Ok"

\* Mutation: post with the assertion inverted.
RawPost_Inverted(r, dbg) ==
    IF dbg /\ r = 0 THEN "panic" ELSE "unit"

\* RawSemaphore::post: debug_assert_eq!(r, 0), return ().
RawPost(r, dbg) ==
    IF dbg /\ r # 0 THEN "panic" ELSE "unit"

\* The libc return value that goes with an errno.
RetOf(errno) == IF errno = "0" THEN 0 ELSE -1

(***************************************************************************)
(* The operating system's side of the libc calls the code makes.  A call   *)
(* on a control block that is not initialized is undefined behaviour: it   *)
(* either is rejected with EINVAL or acts on whatever the memory holds.    *)
(***************************************************************************)

Valid(a) == lifecycle[a] = "Init"

Unexpected == {"EINTR", "EOVERFLOW", "EINVAL"}

Rejected(a) ==
    IF ~Valid(a) /\ faults < MaxFaults
    THEN {[errno |-> "EINVAL", delta |-> 0, block |-> FALSE]}
    ELSE {}

\* sem_trywait(a): the outcomes the OS can produce in this state.
SemTryWaitOs(a) ==
    Rejected(a) \cup
    (IF count[a] > 0 THEN {[errno |-> "0", delta |-> -1, block |-> FALSE]}
     ELSE IF osDeadlock[a] THEN {[errno |-> "EDEADLK", delta |-> 0, block |-> FALSE]}
     ELSE {[errno |-> "EAGAIN", delta |-> 0, block |-> FALSE]})

\* sem_wait(a): decrement, report a detected deadlock, or suspend the caller.
SemWaitOs(a) ==
    Rejected(a) \cup
    (IF count[a] > 0 THEN {[errno |-> "0", delta |-> -1, block |-> FALSE]}
     ELSE IF osDeadlock[a] THEN {[errno |-> "EDEADLK", delta |-> 0, block |-> FALSE]}
     ELSE {[errno |-> "0", delta |-> 0, block |-> TRUE]})

\* sem_post(a): increment, or EOVERFLOW at the maximum count.
SemPostOs(a) ==
    Rejected(a) \cup
    (IF count[a] < SemValueMax THEN {[errno |-> "0", delta |-> 1, block |-> FALSE]}
     ELSE IF faults < MaxFaults
          THEN {[errno |-> "EOVERFLOW", delta |-> 0, block |-> FALSE]}
          ELSE {})

\* sem_init(a, pshared, value): the errnos the OS can answer with.  EINVAL
\* when value exceeds SEM_VALUE_MAX; a platform without process-shared
\* unnamed semaphores (OSX, FreeBSD) answers ENOSYS when pshared is not 0.
SemInitOs(pshared, value) ==
    IF value > SemValueMax THEN {"EINVAL"}
    ELSE IF pshared # 0 THEN {"0", "ENOSYS"}
    ELSE {"0"}

\* Mutation: create_new sets O_CREAT only, without O_EXCL.
OpenFlags_NoExcl(opts) ==
    IF opts.create \/ opts.create_new THEN {"O_CREAT"} ELSE {}

\* Mutation: O_CREAT is set whatever the options say.
OpenFlags_AlwaysCreate(opts) ==
    {"O_CREAT"} \cup (IF opts.create_new THEN {"O_EXCL"} ELSE {})

\* named::OpenOptions::open: the flags handed to sem_open.
OpenFlags(opts) ==
    (IF opts.create THEN {"O_CREAT"} ELSE {}) \cup
    (IF opts.create_new THEN {"O_EXCL", "O_CREAT"} ELSE {})

\* Kernel objects no sem_open has used yet.
FreshKObjs == {k \in KObjs : lifecycle[k] = "Uninit"}

\* sem_open(name, flags, mode, value): the errno, and the object on success.
SemOpenOs(name, flags, value) ==
    IF registry[name] # NoAddr
    THEN IF {"O_CREAT", "O_EXCL"} \subseteq flags
         THEN {[errno |-> "EEXIST", k |-> NoAddr, created |-> FALSE]}
         ELSE {[errno |-> "0", k |-> registry[name], created |-> FALSE]}
    ELSE IF "O_CREAT" \notin flags
         THEN {[errno |-> "ENOENT", k |-> NoAddr, created |-> FALSE]}
         ELSE IF value > SemValueMax
              THEN {[errno |-> "EINVAL", k |-> NoAddr, created |-> FALSE]}
              ELSE IF FreshKObjs = {}
                   THEN {[errno |-> "ENOSPC", k |-> NoAddr, created |-> FALSE]}
                   ELSE {[errno |-> "0", k |-> k, created |-> TRUE] : k \in FreshKObjs}

\* Handles that are in use (created and not dropped) on block a, other than h.
OpenOn(a, h) == {g \in Handles \ {h} : hst[g] \in {"ready", "blocked"} /\ haddr[g] = a}

LiveOwners(a) == {h \in Owners : hst[h] \in {"ready", "blocked"} /\ haddr[h] = a}

(***************************************************************************)
(* The initial state: nothing is initialized, no handle exists.  The build *)
(* (debug or release) is fixed once, before the program runs.              *)
(***************************************************************************)

SemBlank ==
    /\ lifecycle = [a \in Blocks |-> "Uninit"]
    /\ count = [a \in Blocks |-> 0]
    /\ osDeadlock = [a \in Blocks |-> FALSE]
    /\ registry = [n \in Names |-> NoAddr]
    /\ hst = [h \in Handles |-> "none"]
    /\ haddr = [h \in Handles |-> NoAddr]
    /\ faults = 0
    /\ initCalls = [a \in Blocks |-> 0]
    /\ destroyCalls = [a \in Blocks |-> 0]
    /\ destroyedBy = [h \in Handles |-> 0]
    /\ initVal = [a \in Blocks |-> 0]
    /\ ledger = [a \in Blocks |-> 0]
    /\ seq = [a \in Blocks |-> -1]
    /\ last = NoEvent
    /\ trail = {}

\* No handle's process uses the semaphore as a lock.
SemIdle ==
    /\ SemBlank
    /\ crit = [h \in Handles |-> "off"]

\* MapOptions::new(): every option off, no requested address.
NewMapOptions ==
    [shared |-> FALSE, fixed |-> FALSE, addr |-> NoAddr,
     read |-> FALSE, write |-> FALSE, exec |-> FALSE]

\* What a mapping operation leaves in `lastMap`.  For map and map_anonymous:
\* whether mmap was issued, its prot, flags, fd and offset arguments, the
\* offset the caller asked for, the base mmap returned with the length mapped
\* there (none and 0 when no region was made) and what the caller got.  For
\* the drop of a MemoryMap: the base and length handed to munmap.
NoMapEvent ==
    [call |-> "none", issued |-> FALSE, prot |-> {}, flags |-> {}, fd |-> "none",
     asked |-> 0, offset |-> 0, len |-> 0, base |-> NoAddr, res |-> "none"]

MapIdle ==
    /\ mapOpts = NewMapOptions
    /\ mst = [m \in Maps |-> "none"]
    /\ mbase = [m \in Maps |-> NoAddr]
    /\ mlen = [m \in Maps |-> 0]
    /\ region = [b \in Bases |-> 0]
    /\ munmaps = [m \in Maps |-> 0]
    /\ lastMap = NoMapEvent

\* What a shared memory operation leaves in `lastShm`: the operation, the
\* handle, the object, the errno of the libc call, what the caller got, the
\* size passed to set_len or reported by metadata, and for open the name and
\* the OpenOptions value.
NoShmEvent ==
    [op |-> "none", f |-> NoHandle, store |-> NoAddr, errno |-> "0", res |-> "none",
     len |-> 0, name |-> "none",
     opts |-> [write |-> FALSE, create |-> FALSE, create_new |-> FALSE,
               truncate |-> FALSE]]

ShmIdle ==
    /\ shmReg = [n \in ShmNames |-> NoAddr]
    /\ storeSt = [s \in Stores |-> "none"]
    /\ storeLen = [s \in Stores |-> 0]
    /\ setTo = [s \in Stores |-> -1]
    /\ fst = [f \in ShmHandles |-> "none"]
    /\ fstore = [f \in ShmHandles |-> NoAddr]
    /\ fwrite = [f \in ShmHandles |-> FALSE]
    /\ lastShm = NoShmEvent

\* A program that uses semaphores.
InitSem ==
    /\ world \in {"unnamed", "named"}
    /\ debugAssertions \in BOOLEAN
    /\ SemIdle
    /\ offTBits = U64Bits
    /\ MapIdle
    /\ ShmIdle

\* A program that maps memory.
InitMap ==
    /\ world = "map"
    /\ debugAssertions = FALSE
    /\ SemIdle
    /\ offTBits \in OffTWidths
    /\ MapIdle
    /\ ShmIdle

Init == InitSem

(***************************************************************************)
(* History.  `last` is the operation that produced the state; `trail`      *)
(* says which of the scenarios below that operation completed, judged on   *)
(* the state the operation started in:                                     *)
(*   w1    an Owner's wait returned at once, taking the count from 1 to 0  *)
(*   w1p   ... and then a Reference posted on the same block               *)
(*   w1pt  ... and then an Owner called try_wait on the same block         *)
(*   pt    wait or try_wait was called right after a successful post on    *)
(*         the same block                                                  *)
(*   rw    a Reference called wait on a block with a live Owner and a      *)
(*         count of at least 1                                             *)
(***************************************************************************)

Trail(e) ==
    LET a == e.a
        ok == e.res \in {"Ok", "unit"} /\ e.errno = "0"
        call == e.h \in Handles /\ hst[e.h] = "ready"
        same == last.a = a
        postOk == last.op = "post" /\ last.res = "unit" /\ last.errno = "0"
    IN  IF a = NoAddr \/ lifecycle[a] # "Init" THEN {}
        ELSE (IF e.op = "wait" /\ e.h \in Owners /\ call /\ ok /\ count[a] = 1
              THEN {"w1"} ELSE {})
             \cup
             (IF "w1" \in trail /\ same /\ e.op = "post" /\ e.h \in Refs /\ ok
              THEN {"w1p"} ELSE {})
             \cup
             (IF "w1p" \in trail /\ same /\ e.op = "try_wait" /\ e.h \in Owners
              THEN {"w1pt"} ELSE {})
             \cup
             (IF postOk /\ same /\ call /\ e.op \in {"wait", "try_wait"}
              THEN {"pt"} ELSE {})
             \cup
             (IF e.op = "wait" /\ e.h \in Refs /\ call /\ count[a] >= 1
                 /\ LiveOwners(a) # {}
              THEN {"rw"} ELSE {})

\* Where the processes that use the semaphore as a lock are once the
\* operation e is over: the caller is inside its critical section when its
\* wait returned, outside again when it called post.  A wait that suspends
\* or panics lets nobody in.
CsAfter(e) ==
    [h \in Handles |->
        IF h # e.h \/ crit[h] = "off" THEN crit[h]
        ELSE IF e.op = "wait" /\ e.res = "unit" THEN "in"
        ELSE IF e.op = "post" THEN "out"
        ELSE crit[h]]

\* Every semaphore operation records itself; none touches a mapping or a
\* shared memory object.
Record(e) ==
    /\ last' = e
    /\ trail' = Trail(e)
    /\ crit' = CsAfter(e)
    /\ UNCHANGED <<mapVars, shmVars>>

(***************************************************************************)
(* Bookkeeping shared by the three raw operations: what the OS did to the  *)
(* count, and what the caller saw.                                         *)
(***************************************************************************)

\* The change of `ledger` for a call that gave `res` to its caller.
Booked(op, res) ==
    IF op = "post" THEN (IF res = "unit" THEN 1 ELSE 0)
    ELSE IF res \in {"unit", "Ok"} THEN -1 ELSE 0

\* The OS outcome o of `op` on block a reaches handle h's caller as `res`.
Finish(op, h, a, o, res, nseq) ==
    /\ count' = [count EXCEPT ![a] = @ + o.delta]
    /\ osDeadlock' = IF o.delta > 0 THEN [osDeadlock EXCEPT ![a] = FALSE] ELSE osDeadlock
    /\ faults' = IF o.errno \in Unexpected THEN faults + 1 ELSE faults
    /\ ledger' = [ledger EXCEPT ![a] = @ + Booked(op, res)]
    /\ hst' = [hst EXCEPT ![h] = "ready"]
    /\ seq' = [seq EXCEPT ![a] = nseq]
    /\ initVal' = IF nseq < 0 THEN [initVal EXCEPT ![a] = 0] ELSE initVal
    /\ Record(Event(op, h, a, o.errno, res))
    /\ UNCHANGED <<world, lifecycle, registry, haddr, debugAssertions, initCalls,
                   destroyCalls, destroyedBy>>

(***************************************************************************)
(* unnamed::Semaphore (the Owner) and unnamed::SemaphoreRef (a Reference). *)
(***************************************************************************)

\* Mutation: new ignores sem_init's result and always returns a handle.
New_IgnoresInitResult(h, a, value) ==
    /\ world = "unnamed"
    /\ h \in Owners
    /\ hst[h] = "none"
    /\ \E errno \in SemInitOs(1, value) :
       /\ hst' = [hst EXCEPT ![h] = "ready"]
       /\ haddr' = [haddr EXCEPT ![h] = a]
       /\ Record([Event("new", h, a, errno, "Ok") EXCEPT !.inits = <<1>>])
       /\ IF errno = "0"
          THEN /\ lifecycle' = [lifecycle EXCEPT ![a] = "Init"]
               /\ count' = [count EXCEPT ![a] = value]
               /\ osDeadlock' = [osDeadlock EXCEPT ![a] = FALSE]
               /\ initCalls' = [initCalls EXCEPT ![a] = @ + 1]
               /\ initVal' = [initVal EXCEPT ![a] = value]
               /\ ledger' = [ledger EXCEPT ![a] = value]
               /\ seq' = [seq EXCEPT ![a] = 0]
          ELSE UNCHANGED <<lifecycle, count, osDeadlock, initCalls, initVal, ledger, seq>>
    /\ UNCHANGED <<world, registry, debugAssertions, faults, destroyCalls, destroyedBy>>

\* Mutation: when the process-shared sem_init is refused, new retries with
\* pshared = 0 and hands out a handle if that succeeds.
New_RetriesThreadOnly(h, a, value) ==
    /\ world = "unnamed"
    /\ h \in Owners
    /\ hst[h] = "none"
    /\ \E e1 \in SemInitOs(1, value) :
       \E errno \in (IF e1 = "0" THEN {"0"} ELSE SemInitOs(0, value)) :
       IF errno = "0"
       THEN /\ lifecycle' = [lifecycle EXCEPT ![a] = "Init"]
            /\ count' = [count EXCEPT ![a] = value]
            /\ osDeadlock' = [osDeadlock EXCEPT ![a] = FALSE]
            /\ hst' = [hst EXCEPT ![h] = "ready"]
            /\ haddr' = [haddr EXCEPT ![h] = a]
            /\ initCalls' = [initCalls EXCEPT ![a] = @ + 1]
            /\ initVal' = [initVal EXCEPT ![a] = value]
            /\ ledger' = [ledger EXCEPT ![a] = value]
            /\ seq' = [seq EXCEPT ![a] = 0]
            /\ Record([Event("new", h, a, errno, "Ok") EXCEPT
                          !.inits = IF e1 = "0" THEN <<1>> ELSE <<1, 0>>])
            /\ UNCHANGED <<world, registry, debugAssertions, faults, destroyCalls,
                           destroyedBy>>
       ELSE /\ Record([Event("new", h, a, errno, "Err") EXCEPT !.inits = <<1, 0>>])
            /\ UNCHANGED <<world, lifecycle, count, osDeadlock, registry, hst, haddr,
                           debugAssertions, faults, initCalls, destroyCalls,
                           destroyedBy, initVal, ledger, seq>>

\* Semaphore::new(sem, value): sem_init(sem, 1, value); a handle on success,
\* the OS error otherwise.
New(h, a, value) ==
    /\ world = "unnamed"
    /\ h \in Owners
    /\ hst[h] = "none"
    /\ \E errno \in SemInitOs(1, value) :
       IF errno = "0"
       THEN /\ lifecycle' = [lifecycle EXCEPT ![a] = "Init"]
            /\ count' = [count EXCEPT ![a] = value]
            /\ osDeadlock' = [osDeadlock EXCEPT ![a] = FALSE]
            /\ hst' = [hst EXCEPT ![h] = "ready"]
            /\ haddr' = [haddr EXCEPT ![h] = a]
            /\ initCalls' = [initCalls EXCEPT ![a] = @ + 1]
            /\ initVal' = [initVal EXCEPT ![a] = value]
            /\ ledger' = [ledger EXCEPT ![a] = value]
            /\ seq' = [seq EXCEPT ![a] = 0]
            /\ Record([Event("new", h, a, errno, "Ok") EXCEPT !.inits = <<1>>])
            /\ UNCHANGED <<world, registry, debugAssertions, faults, destroyCalls,
                           destroyedBy>>
       ELSE /\ Record([Event("new", h, a, errno, "Err") EXCEPT !.inits = <<1>>])
            /\ UNCHANGED <<world, lifecycle, count, osDeadlock, registry, hst, haddr,
                           debugAssertions, faults, initCalls, destroyCalls,
                           destroyedBy, initVal, ledger, seq>>

\* Mutation: the Owner has no Drop impl, so no sem_destroy is issued.
DropOwner_NoDestroy(h) ==
    /\ h \in Owners
    /\ hst[h] = "ready"
    /\ hst' = [hst EXCEPT ![h] = "dropped"]
    /\ Record(Event("drop", h, haddr[h], "0", "unit"))
    /\ UNCHANGED <<world, lifecycle, count, osDeadlock, registry, haddr,
                   debugAssertions, faults, initCalls, destroyCalls, destroyedBy,
                   initVal, ledger, seq>>

\* Drop for Semaphore: sem_destroy on the wrapped address.
DropOwner(h) ==
    /\ h \in Owners
    /\ hst[h] = "ready"
    /\ LET a == haddr[h] IN
       /\ lifecycle' = [lifecycle EXCEPT ![a] = "Destroyed"]
       /\ osDeadlock' = [osDeadlock EXCEPT ![a] = FALSE]
       /\ destroyCalls' = [destroyCalls EXCEPT ![a] = @ + 1]
       /\ destroyedBy' = [destroyedBy EXCEPT ![h] = @ + 1]
       /\ hst' = [hst EXCEPT ![h] = "dropped"]
       /\ seq' = [seq EXCEPT ![a] = -1]
       /\ initVal' = [initVal EXCEPT ![a] = 0]
       /\ Record(Event("drop", h, a, "0", "unit"))
    /\ UNCHANGED <<world, count, registry, haddr, debugAssertions, faults, initCalls,
                   ledger>>

\* Mutation: SemaphoreRef::new initializes the block it wraps.
RefNew_Inits(h, a) ==
    /\ world = "unnamed"
    /\ h \in Refs
    /\ hst[h] = "none"
    /\ hst' = [hst EXCEPT ![h] = "ready"]
    /\ haddr' = [haddr EXCEPT ![h] = a]
    /\ lifecycle' = [lifecycle EXCEPT ![a] = "Init"]
    /\ count' = [count EXCEPT ![a] = 0]
    /\ ledger' = [ledger EXCEPT ![a] = 0]
    /\ initCalls' = [initCalls EXCEPT ![a] = @ + 1]
    /\ seq' = [seq EXCEPT ![a] = -1]
    /\ initVal' = [initVal EXCEPT ![a] = 0]
    /\ Record([Event("ref_new", h, a, "0", "unit") EXCEPT !.inits = <<1>>])
    /\ UNCHANGED <<world, osDeadlock, registry, debugAssertions, faults, destroyCalls,
                   destroyedBy>>

\* SemaphoreRef::new(sem): wraps the address, no OS call.
RefNew(h, a) ==
    /\ world = "unnamed"
    /\ h \in Refs
    /\ hst[h] = "none"
    /\ hst' = [hst EXCEPT ![h] = "ready"]
    /\ haddr' = [haddr EXCEPT ![h] = a]
    /\ Record(Event("ref_new", h, a, "0", "unit"))
    /\ UNCHANGED <<world, lifecycle, count, osDeadlock, registry, debugAssertions,
                   faults, initCalls, destroyCalls, destroyedBy, initVal, ledger, seq>>

\* Mutation: dropping a SemaphoreRef destroys the block, as the Owner's drop does.
DropRef_Destroys(h) ==
    /\ h \in Refs
    /\ hst[h] = "ready"
    /\ LET a == haddr[h] IN
       /\ lifecycle' = [lifecycle EXCEPT ![a] = "Destroyed"]
       /\ destroyCalls' = [destroyCalls EXCEPT ![a] = @ + 1]
       /\ destroyedBy' = [destroyedBy EXCEPT ![h] = @ + 1]
       /\ hst' = [hst EXCEPT ![h] = "dropped"]
       /\ seq' = [seq EXCEPT ![a] = -1]
       /\ initVal' = [initVal EXCEPT ![a] = 0]
       /\ Record(Event("ref_drop", h, a, "0", "unit"))
    /\ UNCHANGED <<world, count, osDeadlock, registry, haddr, debugAssertions, faults,
                   initCalls, ledger>>

\* SemaphoreRef has no Drop impl: dropping it makes no OS call.
DropRef(h) ==
    /\ h \in Refs
    /\ hst[h] = "ready"
    /\ hst' = [hst EXCEPT ![h] = "dropped"]
    /\ Record(Event("ref_drop", h, haddr[h], "0", "unit"))
    /\ UNCHANGED <<world, lifecycle, count, osDeadlock, registry, haddr,
                   debugAssertions, faults, initCalls, destroyCalls, destroyedBy,
                   initVal, ledger, seq>>

(***************************************************************************)
(* named::Semaphore and the registry of names.                             *)
(***************************************************************************)

\* named::OpenOptions::open(name): sem_open with the flags of the options.
NamedOpen(h, name, opts) ==
    /\ world = "named"
    /\ h \in Nameds
    /\ hst[h] = "none"
    /\ \E o \in SemOpenOs(name, OpenFlags(opts), opts.value) :
          LET e == [Event("open", h, o.k, o.errno, IF o.errno = "0" THEN "Ok" ELSE "Err")
                       EXCEPT !.name = name, !.flags = OpenFlags(opts), !.opts = opts]
          IN
          IF o.errno = "0"
          THEN /\ hst' = [hst EXCEPT ![h] = "ready"]
               /\ haddr' = [haddr EXCEPT ![h] = o.k]
               /\ registry' = [registry EXCEPT ![name] = o.k]
               /\ lifecycle' = [lifecycle EXCEPT ![o.k] = "Init"]
               /\ count' = IF o.created THEN [count EXCEPT ![o.k] = opts.value]
                           ELSE count
               /\ ledger' = IF o.created THEN [ledger EXCEPT ![o.k] = opts.value]
                            ELSE ledger
               /\ Record(e)
               /\ UNCHANGED <<world, osDeadlock, debugAssertions, faults, initCalls,
                              destroyCalls, destroyedBy, initVal, seq>>
          ELSE /\ Record(e)
               /\ UNCHANGED <<world, lifecycle, count, osDeadlock, registry, hst,
                              haddr, debugAssertions, faults, initCalls, destroyCalls,
                              destroyedBy, initVal, ledger, seq>>

\* The kernel frees a semaphore object once it has no name and no open handle.
Reclaim(k, linked, open) ==
    IF ~linked /\ open = {}
    THEN [lifecycle EXCEPT ![k] = "Destroyed"]
    ELSE lifecycle

\* Drop for named::Semaphore: sem_close.
DropNamed(h) ==
    /\ h \in Nameds
    /\ hst[h] = "ready"
    /\ LET k == haddr[h] IN
       /\ hst' = [hst EXCEPT ![h] = "dropped"]
       /\ lifecycle' = Reclaim(k, \E n \in Names : registry[n] = k, OpenOn(k, h))
       /\ Record(Event("close", h, k, "0", "unit"))
    /\ UNCHANGED <<world, count, osDeadlock, registry, haddr, debugAssertions, faults,
                   initCalls, destroyCalls, destroyedBy, initVal, ledger, seq>>

\* named::unlink(name): sem_unlink.
Unlink(name) ==
    /\ world = "named"
    /\ LET k == registry[name] IN
       IF k = NoAddr
       THEN /\ Record(Event("unlink", NoHandle, NoAddr, "ENOENT", "Err"))
            /\ UNCHANGED <<lifecycle, registry>>
       ELSE /\ registry' = [registry EXCEPT ![name] = NoAddr]
            /\ lifecycle' = Reclaim(k, FALSE, OpenOn(k, NoHandle))
            /\ Record(Event("unlink", NoHandle, k, "0", "Ok"))
    /\ UNCHANGED <<world, count, osDeadlock, hst, haddr, debugAssertions, faults,
                   initCalls, destroyCalls, destroyedBy, initVal, ledger, seq>>

(***************************************************************************)
(* wait, try_wait and post: every handle type delegates to RawSemaphore.   *)
(***************************************************************************)

\* Mutation: try_wait calls sem_wait, so it suspends on an empty block.
TryWait_CallsSemWait(h) ==
    /\ h \in Owners
    /\ hst[h] = "ready"
    /\ LET a == haddr[h] IN
       \E o \in SemWaitOs(a) :
          IF o.block
          THEN /\ hst' = [hst EXCEPT ![h] = "blocked"]
               /\ seq' = [seq EXCEPT ![a] = -1]
               /\ initVal' = [initVal EXCEPT ![a] = 0]
               /\ Record(Event("try_wait", h, a, "0", "blocked"))
               /\ UNCHANGED <<world, lifecycle, count, osDeadlock, registry, haddr,
                              debugAssertions, faults, initCalls, destroyCalls,
                              destroyedBy, ledger>>
          ELSE Finish("try_wait", h, a, o,
                      RawTryWait(RetOf(o.errno), o.errno, debugAssertions), -1)

\* unnamed::Semaphore::try_wait -> RawSemaphore::try_wait -> sem_trywait.
TryWait(h) ==
    /\ h \in Owners
    /\ hst[h] = "ready"
    /\ LET a == haddr[h] IN
       \E o \in SemTryWaitOs(a) :
          Finish("try_wait", h, a, o,
                 RawTryWait(RetOf(o.errno), o.errno, debugAssertions),
                 IF seq[a] >= 0 /\ seq[a] <= initVal[a] THEN seq[a] + 1 ELSE -1)

\* Mutation: post acts on a copy of the control block, not on the shared one.
Post_OnCopy(h) ==
    /\ hst[h] = "ready"
    /\ LET a == haddr[h] IN
       \E o \in SemPostOs(a) :
          Finish("post", h, a, [o EXCEPT !.delta = 0],
                 RawPost(RetOf(o.errno), debugAssertions), -1)

\* post of Semaphore, SemaphoreRef and named::Semaphore -> RawSemaphore::post
\* -> sem_post.
Post(h) ==
    /\ hst[h] = "ready"
    /\ LET a == haddr[h] IN
       \E o \in SemPostOs(a) :
          Finish("post", h, a, o, RawPost(RetOf(o.errno), debugAssertions), -1)

\* wait of Semaphore, SemaphoreRef and named::Semaphore -> RawSemaphore::wait
\* -> sem_wait: the call either comes back at once or suspends the thread.
Wait(h) ==
    /\ hst[h] = "ready"
    /\ LET a == haddr[h] IN
       \E o \in SemWaitOs(a) :
          IF o.block
          THEN /\ hst' = [hst EXCEPT ![h] = "blocked"]
               /\ seq' = [seq EXCEPT ![a] = -1]
               /\ initVal' = [initVal EXCEPT ![a] = 0]
               /\ Record(Event("wait", h, a, "0", "blocked"))
               /\ UNCHANGED <<world, lifecycle, count, osDeadlock, registry, haddr,
                              debugAssertions, faults, initCalls, destroyCalls,
                              destroyedBy, ledger>>
          ELSE Finish("wait", h, a, o,
                      RawWait(RetOf(o.errno), o.errno, debugAssertions), -1)

\* A thread suspended in sem_wait is released once the count is positive.
WaitWake(h) ==
    /\ hst[h] = "blocked"
    /\ count[haddr[h]] > 0
    /\ LET o == [errno |-> "0", delta |-> -1, block |-> FALSE] IN
       Finish("wait", h, haddr[h], o,
              RawWait(RetOf(o.errno), o.errno, debugAssertions), -1)

\* A signal handler interrupts a thread suspended in sem_wait: EINTR.
Interrupt(h) ==
    /\ hst[h] = "blocked"
    /\ faults < MaxFaults
    /\ LET o == [errno |-> "EINTR", delta |-> 0, block |-> FALSE] IN
       Finish("wait", h, haddr[h], o,
              RawWait(RetOf(o.errno), o.errno, debugAssertions), -1)

\* The OS reports a deadlock to a thread suspended in sem_wait: EDEADLK.
WaitDeadlock(h) ==
    /\ hst[h] = "blocked"
    /\ osDeadlock[haddr[h]]
    /\ count[haddr[h]] = 0
    /\ LET o == [errno |-> "EDEADLK", delta |-> 0, block |-> FALSE] IN
       Finish("wait", h, haddr[h], o,
              RawWait(RetOf(o.errno), o.errno, debugAssertions), -1)

\* The OS's deadlock detector flags waits on an empty control block.
DetectDeadlock(a) ==
    /\ Valid(a)
    /\ count[a] = 0
    /\ ~osDeadlock[a]
    /\ osDeadlock' = [osDeadlock EXCEPT ![a] = TRUE]
    /\ seq' = [seq EXCEPT ![a] = -1]
    /\ initVal' = [initVal EXCEPT ![a] = 0]
    /\ Record(Event("os_deadlock", NoHandle, a, "0", "none"))
    /\ UNCHANGED <<world, lifecycle, count, registry, hst, haddr, debugAssertions,
                   faults, initCalls, destroyCalls, destroyedBy, ledger>>

\* The option values a caller can build with named::OpenOptions.
OpenOptionsSet ==
    [create : BOOLEAN, create_new : BOOLEAN, value : 0..(SemValueMax + 1)]

NextSem ==
    \/ \E h \in Owners, a \in Addrs, value \in 0..(SemValueMax + 1) : New(h, a, value)
    \/ \E h \in Owners : DropOwner(h)
    \/ \E h \in Refs, a \in Addrs : RefNew(h, a)
    \/ \E h \in Refs : DropRef(h)
    \/ \E h \in Nameds, n \in Names, opts \in OpenOptionsSet : NamedOpen(h, n, opts)
    \/ \E h \in Nameds : DropNamed(h)
    \/ \E n \in Names : Unlink(n)
    \/ \E h \in Owners : TryWait(h)
    \/ \E h \in Handles : Post(h)
    \/ \E h \in Handles : Wait(h)
    \/ \E h \in Handles : WaitWake(h)
    \/ \E h \in Handles : Interrupt(h)
    \/ \E h \in Handles : WaitDeadlock(h)
    \/ \E a \in Blocks : DetectDeadlock(a)

Next == NextSem

Spec == Init /\ [][Next]_vars

(***************************************************************************)
(* mmap::MapOptions and mmap::MemoryMap (src/src/mmap.rs).                 *)
(***************************************************************************)

Pow2(n) == 2 ^ n

\* libc::off_t::max_value() for an off_t of `bits` bits.
OffTMax(bits) == Pow2(bits - 1) - 1

\* `x as libc::off_t`: keep the low `bits` bits, read them as two's complement.
AsOffT(x, bits) ==
    LET low == x % Pow2(bits)
    IN  IF low >= Pow2(bits - 1) THEN low - Pow2(bits) ELSE low

\* Mutation: map_inner without the offset check.
OffsetTooLarge_Never(offset, bits) == FALSE

\* map_inner's check `offset > libc::off_t::max_value() as u64`.
OffsetTooLarge(offset, bits) == offset > OffTMax(bits)

\* Mutation: a writable mapping is made readable too.
ProtOf_WriteImpliesRead(o) ==
    (IF o.read \/ o.write THEN {"PROT_READ"} ELSE {}) \cup
    (IF o.write THEN {"PROT_WRITE"} ELSE {}) \cup
    (IF o.exec THEN {"PROT_EXEC"} ELSE {})

\* map_inner: the protection mask built from read, write, exec.
ProtOf(o) ==
    (IF o.read THEN {"PROT_READ"} ELSE {}) \cup
    (IF o.write THEN {"PROT_WRITE"} ELSE {}) \cup
    (IF o.exec THEN {"PROT_EXEC"} ELSE {})

\* map_inner: the flags built on top of the caller's MAP_FILE or MAP_ANON.
FlagsOf(o, flags) ==
    flags \cup
    (IF o.shared THEN {"MAP_SHARED"} ELSE {"MAP_PRIVATE"}) \cup
    (IF o.fixed THEN {"MAP_FIXED"} ELSE {})

\* mmap(addr, len, prot, flags, fd, offset): the kernel refuses a zero
\* length, a negative offset and, unless the mapping is anonymous, a bad
\* descriptor; it may refuse any other request too (permissions, alignment,
\* address space); otherwise it maps `len` bytes at a free base.
MmapOs(len, flags, fd, offset) ==
    {[errno |-> "EINVAL", base |-> NoAddr]} \cup
    (IF len = 0 \/ offset < 0 \/ ("MAP_ANON" \notin flags /\ fd = "bad_fd")
     THEN {}
     ELSE {[errno |-> "0", base |-> b] : b \in {c \in Bases : region[c] = 0}})

\* MemoryMap values are named in the order they are made.
Unused(m) ==
    /\ mst[m] = "none"
    /\ \A i, j \in 1..Len(MapOrder) :
           (MapOrder[j] = m /\ i < j) => mst[MapOrder[i]] # "none"

\* MapOptions::map_inner(len, flags, fd, offset), giving MemoryMap m on success.
MapInner(call, m, len, flags, fd, offset) ==
    /\ Unused(m)
    /\ LET prot == ProtOf(mapOpts)
           fl == FlagsOf(mapOpts, flags)
       IN  IF OffsetTooLarge(offset, offTBits)
           THEN /\ lastMap' = [call |-> call, issued |-> FALSE, prot |-> prot,
                               flags |-> fl, fd |-> fd, asked |-> offset,
                               offset |-> 0, len |-> 0, base |-> NoAddr,
                               res |-> "InvalidInput"]
                /\ UNCHANGED <<mst, mbase, mlen, region>>
           ELSE LET off == AsOffT(offset, offTBits) IN
                \E o \in MmapOs(len, fl, fd, off) :
                   /\ lastMap' = [call |-> call, issued |-> TRUE, prot |-> prot,
                                  flags |-> fl, fd |-> fd, asked |-> offset,
                                  offset |-> off,
                                  len |-> IF o.errno = "0" THEN len ELSE 0,
                                  base |-> o.base,
                                  res |-> IF o.errno = "0" THEN "Ok" ELSE "OsError"]
                   /\ IF o.errno = "0"
                      THEN /\ mst' = [mst EXCEPT ![m] = "live"]
                           /\ mbase' = [mbase EXCEPT ![m] = o.base]
                           /\ mlen' = [mlen EXCEPT ![m] = len]
                           /\ region' = [region EXCEPT ![o.base] = len]
                      ELSE UNCHANGED <<mst, mbase, mlen, region>>
    /\ UNCHANGED <<semVars, offTBits, mapOpts, munmaps>>

\* MapOptions::map(len, fd, offset), fd being any AsRawFd value.
Map(m, len, fd, offset) ==
    /\ MapInner("map", m, len, {"MAP_FILE"}, fd, offset)
    /\ UNCHANGED shmVars

\* MapOptions::map_anonymous(len): the descriptor and offset handed on are 0.
MapAnonymous(m, len) ==
    /\ MapInner("map_anonymous", m, len, {"MAP_ANON"}, "fd0", 0)
    /\ UNCHANGED shmVars

\* Mutation: the MemoryMap is forgotten without a munmap call.
DropMap_Leaks(m) ==
    /\ mst[m] = "live"
    /\ mst' = [mst EXCEPT ![m] = "dropped"]
    /\ lastMap' = [NoMapEvent EXCEPT !.call = "drop"]
    /\ UNCHANGED <<semVars, shmVars, offTBits, mapOpts, mbase, mlen, region, munmaps>>

\* Drop for MemoryMap: munmap(base, len).
DropMap(m) ==
    /\ mst[m] = "live"
    /\ mst' = [mst EXCEPT ![m] = "dropped"]
    /\ region' = [region EXCEPT ![mbase[m]] = 0]
    /\ munmaps' = [munmaps EXCEPT ![m] = @ + 1]
    /\ lastMap' = [NoMapEvent EXCEPT !.call = "drop", !.base = mbase[m],
                                     !.len = mlen[m]]
    /\ UNCHANGED <<semVars, shmVars, offTBits, mapOpts, mbase, mlen>>

\* The builder's setters: shared, fixed, addr, read, write, exec.
SetOption(field, value) ==
    /\ mapOpts' = [mapOpts EXCEPT ![field] = value]
    /\ lastMap' = [NoMapEvent EXCEPT !.call = "set"]
    /\ UNCHANGED <<semVars, shmVars, offTBits, mst, mbase, mlen, region, munmaps>>

NextMap ==
    \/ \E f \in {"shared", "fixed", "read", "write", "exec"}, v \in BOOLEAN :
          SetOption(f, v)
    \/ \E b \in {"b1", NoAddr} : SetOption("addr", b)
    \/ \E m \in Maps, len \in 0..MaxLen, fd \in Fds, offset \in 0..(Pow2(U64Bits) - 1) :
          Map(m, len, fd, offset)
    \/ \E m \in Maps, len \in 0..MaxLen : MapAnonymous(m, len)
    \/ \E m \in Maps : DropMap(m)

SpecMap == InitMap /\ [][NextMap]_vars

(***************************************************************************)
(* shm::SharedMemory, shm::OpenOptions and shm::unlink (src/src/shm.rs).   *)
(* A SharedMemory wraps a File, that is one descriptor: it is closed when  *)
(* the value is dropped.                                                   *)
(***************************************************************************)

\* The option values a caller can build with shm::OpenOptions.  There is no
\* setter for `truncate`: it keeps the value OpenOptions::new() gives it.
ShmOptionsSet ==
    [write : BOOLEAN, create : BOOLEAN, create_new : BOOLEAN, truncate : {FALSE}]

\* shm::OpenOptions::open: the oflag handed to shm_open.
ShmOpenFlags(opts) ==
    (IF opts.write THEN {"O_RDWR"} ELSE {"O_RDONLY"}) \cup
    (IF opts.create THEN {"O_CREAT"} ELSE {}) \cup
    (IF opts.create_new THEN {"O_EXCL", "O_CREAT"} ELSE {}) \cup
    (IF opts.truncate THEN {"O_TRUNC"} ELSE {})

\* Shared memory objects no shm_open has used yet.
FreshStores == {s \in Stores : storeSt[s] = "none"}

\* shm_open(name, oflag, mode): the errno, and the object on success.
ShmOpenOs(name, oflag) ==
    IF shmReg[name] # NoAddr
    THEN IF {"O_CREAT", "O_EXCL"} \subseteq oflag
         THEN {[errno |-> "EEXIST", s |-> NoAddr, created |-> FALSE]}
         ELSE {[errno |-> "0", s |-> shmReg[name], created |-> FALSE]}
    ELSE IF "O_CREAT" \notin oflag
         THEN {[errno |-> "ENOENT", s |-> NoAddr, created |-> FALSE]}
         ELSE IF FreshStores = {}
              THEN {[errno |-> "ENOSPC", s |-> NoAddr, created |-> FALSE]}
              ELSE {[errno |-> "0", s |-> s, created |-> TRUE] : s \in FreshStores}

\* SharedMemory values are named in the order they are made.
UnusedShm(f) ==
    /\ fst[f] = "none"
    /\ \A i, j \in 1..Len(ShmOrder) :
           (ShmOrder[j] = f /\ i < j) => fst[ShmOrder[i]] # "none"

\* Open descriptors on object s, other than f's.
ShmOpenOn(s, f) == {g \in ShmHandles \ {f} : fst[g] = "open" /\ fstore[g] = s}

\* The kernel releases a shared memory object once it has no name and no
\* open descriptor (its pages stay for as long as a mapping uses them).
ShmReclaim(s, linked, open) ==
    IF ~linked /\ open = {}
    THEN [storeSt EXCEPT ![s] = "released"]
    ELSE storeSt

\* shm::OpenOptions::open(name): shm_open with the oflag of the options.
ShmOpen(f, name, opts) ==
    /\ world = "shm"
    /\ UnusedShm(f)
    /\ \E o \in ShmOpenOs(name, ShmOpenFlags(opts)) :
          /\ lastShm' = [NoShmEvent EXCEPT !.op = "open", !.f = f, !.store = o.s,
                                          !.errno = o.errno,
                                          !.res = IF o.errno = "0" THEN "Ok" ELSE "Err",
                                          !.name = name, !.opts = opts]
          /\ IF o.errno = "0"
             THEN /\ fst' = [fst EXCEPT ![f] = "open"]
                  /\ fstore' = [fstore EXCEPT ![f] = o.s]
                  /\ fwrite' = [fwrite EXCEPT ![f] = "O_RDWR" \in ShmOpenFlags(opts)]
                  /\ shmReg' = [shmReg EXCEPT ![name] = o.s]
                  /\ storeSt' = [storeSt EXCEPT ![o.s] = "live"]
                  /\ storeLen' =
                        IF o.created
                           \/ {"O_TRUNC", "O_RDWR"} \subseteq ShmOpenFlags(opts)
                        THEN [storeLen EXCEPT ![o.s] = 0]
                        ELSE storeLen
                  /\ UNCHANGED setTo
             ELSE UNCHANGED <<shmReg, storeSt, storeLen, setTo, fst, fstore, fwrite>>
    /\ UNCHANGED <<semVars, mapVars>>

\* SharedMemory::set_len(size): File::set_len, that is ftruncate, which
\* needs a descriptor open for writing.
SetLen(f, size) ==
    /\ fst[f] = "open"
    /\ LET s == fstore[f]
           errno == IF fwrite[f] THEN "0" ELSE "EINVAL"
       IN  /\ lastShm' = [NoShmEvent EXCEPT !.op = "set_len", !.f = f, !.store = s,
                                           !.errno = errno,
                                           !.res = IF errno = "0" THEN "Ok" ELSE "Err",
                                           !.len = size]
           /\ IF errno = "0"
              THEN /\ storeLen' = [storeLen EXCEPT ![s] = size]
                   /\ setTo' = [setTo EXCEPT ![s] = size]
              ELSE UNCHANGED <<storeLen, setTo>>
    /\ UNCHANGED <<shmReg, storeSt, fst, fstore, fwrite>>
    /\ UNCHANGED <<semVars, mapVars>>

\* SharedMemory::metadata(): File::metadata, that is fstat; len() is st_size.
Metadata(f) ==
    /\ fst[f] = "open"
    /\ lastShm' = [NoShmEvent EXCEPT !.op = "metadata", !.f = f, !.store = fstore[f],
                                    !.res = "Ok", !.len = storeLen[fstore[f]]]
    /\ UNCHANGED <<shmReg, storeSt, storeLen, setTo, fst, fstore, fwrite>>
    /\ UNCHANGED <<semVars, mapVars>>

\* Mutation: try_clone makes a private copy of the object.
TryClone_Copies(f, g) ==
    /\ fst[f] = "open"
    /\ UnusedShm(g)
    /\ FreshStores # {}
    /\ \E s \in FreshStores :
          /\ fst' = [fst EXCEPT ![g] = "open"]
          /\ fstore' = [fstore EXCEPT ![g] = s]
          /\ fwrite' = [fwrite EXCEPT ![g] = fwrite[f]]
          /\ storeSt' = [storeSt EXCEPT ![s] = "live"]
          /\ storeLen' = [storeLen EXCEPT ![s] = storeLen[fstore[f]]]
          /\ lastShm' = [NoShmEvent EXCEPT !.op = "try_clone", !.f = g, !.store = s,
                                          !.res = "Ok"]
    /\ UNCHANGED <<shmReg, setTo>>
    /\ UNCHANGED <<semVars, mapVars>>

\* SharedMemory::try_clone(): File::try_clone, a second descriptor on the
\* same object with the same access mode.
TryClone(f, g) ==
    /\ fst[f] = "open"
    /\ UnusedShm(g)
    /\ fst' = [fst EXCEPT ![g] = "open"]
    /\ fstore' = [fstore EXCEPT ![g] = fstore[f]]
    /\ fwrite' = [fwrite EXCEPT ![g] = fwrite[f]]
    /\ lastShm' = [NoShmEvent EXCEPT !.op = "try_clone", !.f = g,
                                    !.store = fstore[f], !.res = "Ok"]
    /\ UNCHANGED <<shmReg, storeSt, storeLen, setTo>>
    /\ UNCHANGED <<semVars, mapVars>>

\* Dropping a SharedMemory drops its File: close(fd).
CloseShm(f) ==
    /\ fst[f] = "open"
    /\ LET s == fstore[f] IN
       /\ fst' = [fst EXCEPT ![f] = "closed"]
       /\ storeSt' = ShmReclaim(s, \E n \in ShmNames : shmReg[n] = s, ShmOpenOn(s, f))
       /\ lastShm' = [NoShmEvent EXCEPT !.op = "close", !.f = f, !.store = s,
                                       !.res = "unit"]
    /\ UNCHANGED <<shmReg, storeLen, setTo, fstore, fwrite>>
    /\ UNCHANGED <<semVars, mapVars>>

\* Mutation: unlink also cuts the open descriptors off the object.
ShmUnlink_Revokes(name) ==
    /\ world = "shm"
    /\ LET s == shmReg[name] IN
       IF s = NoAddr
       THEN /\ lastShm' = [NoShmEvent EXCEPT !.op = "unlink", !.errno = "ENOENT",
                                            !.res = "Err", !.name = name]
            /\ UNCHANGED <<shmReg, storeSt, fst>>
       ELSE /\ shmReg' = [shmReg EXCEPT ![name] = NoAddr]
            /\ storeSt' = [storeSt EXCEPT ![s] = "released"]
            /\ fst' = [f \in ShmHandles |->
                          IF fst[f] = "open" /\ fstore[f] = s THEN "closed" ELSE fst[f]]
            /\ lastShm' = [NoShmEvent EXCEPT !.op = "unlink", !.store = s,
                                            !.res = "Ok", !.name = name]
    /\ UNCHANGED <<storeLen, setTo, fstore, fwrite>>
    /\ UNCHANGED <<semVars, mapVars>>

\* shm::unlink(name): shm_unlink.
ShmUnlink(name) ==
    /\ world = "shm"
    /\ LET s == shmReg[name] IN
       IF s = NoAddr
       THEN /\ lastShm' = [NoShmEvent EXCEPT !.op = "unlink", !.errno = "ENOENT",
                                            !.res = "Err", !.name = name]
            /\ UNCHANGED <<shmReg, storeSt>>
       ELSE /\ shmReg' = [shmReg EXCEPT ![name] = NoAddr]
            /\ storeSt' = ShmReclaim(s, FALSE, ShmOpenOn(s, NoHandle))
            /\ lastShm' = [NoShmEvent EXCEPT !.op = "unlink", !.store = s,
                                            !.res = "Ok", !.name = name]
    /\ UNCHANGED <<storeLen, setTo, fst, fstore, fwrite>>
    /\ UNCHANGED <<semVars, mapVars>>

\* Mutation: map takes the SharedMemory by value, so it is closed when map
\* returns.
MapShm_TakesHandle(m, len, f, offset) ==
    /\ world = "shm"
    /\ fst[f] = "open"
    /\ MapInner("map", m, len, {"MAP_FILE"}, f, offset)
    /\ fst' = [fst EXCEPT ![f] = "closed"]
    /\ UNCHANGED <<shmReg, storeSt, storeLen, setTo, fstore, fwrite, lastShm>>

\* MapOptions::map(len, &shm, offset): the SharedMemory is borrowed, its
\* as_raw_fd() is the descriptor handed to mmap.
MapShm(m, len, f, offset) ==
    /\ world = "shm"
    /\ fst[f] = "open"
    /\ MapInner("map", m, len, {"MAP_FILE"}, f, offset)
    /\ UNCHANGED shmVars

\* A program that uses named objects: named semaphores, or shared memory
\* objects and mappings of them.
InitNames ==
    /\ \/ world = "named" /\ debugAssertions \in BOOLEAN
       \/ world = "shm" /\ debugAssertions = FALSE
    /\ SemIdle
    /\ offTBits = U64Bits
    /\ MapIdle
    /\ ShmIdle

NextNames ==
    \/ \E h \in Nameds, n \in Names, opts \in OpenOptionsSet : NamedOpen(h, n, opts)
    \/ \E h \in Nameds : DropNamed(h)
    \/ \E n \in Names : Unlink(n)
    \/ \E h \in Nameds : Post(h)
    \/ \E h \in Nameds : Wait(h)
    \/ \E h \in Nameds : WaitWake(h)
    \/ \E h \in Nameds : Interrupt(h)
    \/ \E h \in Nameds : WaitDeadlock(h)
    \/ \E k \in KObjs : DetectDeadlock(k)
    \/ \E f \in ShmHandles, n \in ShmNames, opts \in ShmOptionsSet : ShmOpen(f, n, opts)
    \/ \E f \in ShmHandles, size \in 0..MaxShmLen : SetLen(f, size)
    \/ \E f \in ShmHandles : Metadata(f)
    \/ \E f, g \in ShmHandles : TryClone(f, g)
    \/ \E f \in ShmHandles : CloseShm(f)
    \/ \E n \in ShmNames : ShmUnlink(n)
    \/ \E m \in Maps, len \in 1..MaxLen, f \in ShmHandles : MapShm(m, len, f, 0)
    \/ \E m \in Maps : DropMap(m)

SpecNames == InitNames /\ [][NextNames]_vars

(***************************************************************************)
(* Unnamed semaphores inside a mapping, as in the crate's own test         *)
(* (src/src/lib.rs, unnamed_sem): a region is mapped shared, an Owner is   *)
(* made at an address inside it, and a Reference wraps the same address.   *)
(* A semaphore handle holds a raw pointer, so the borrow checker ties it   *)
(* to neither the MemoryMap nor the Owner.                                 *)
(***************************************************************************)

\* The base of the region a control-block address lies in, once mapped.
BaseOf(a) == IF a = "a1" THEN "b1" ELSE "b2"

Mapped(a) == region[BaseOf(a)] > 0

\* The process has not been killed by a fault.
Alive == world = "unnamed"

\* The handles of the test: one Owner, one Reference.
IpcHandles == {"o1"} \cup Refs

\* MapOptions::new().read(true).write(true).shared(true).map(len, &shm, 0).
IpcMap(m) == Alive /\ Map(m, MaxLen, "shm_fd", 0)

\* The MemoryMap goes out of scope.
IpcUnmap(m) == Alive /\ DropMap(m)

\* Semaphore::new(sem_ptr, value) at an address inside a mapped region.
IpcNew(h, a, value) == Mapped(a) /\ New(h, a, value)

\* SemaphoreRef::new(sem_ptr), called as its safety contract asks: on a
\* mapped, initialized block.
IpcRefNew(h, a) == Mapped(a) /\ Valid(a) /\ RefNew(h, a)

\* wait, try_wait and post on a handle whose address is mapped.
IpcUse(h) ==
    /\ Alive
    /\ Mapped(haddr[h])
    /\ \/ h \in Owners /\ TryWait(h)
       \/ Post(h)
       \/ Wait(h)
       \/ WaitWake(h)

\* The handle goes out of scope: sem_destroy for an Owner, nothing for a
\* Reference.
IpcDrop(h) ==
    /\ Alive
    /\ \/ h \in Owners /\ Mapped(haddr[h]) /\ DropOwner(h)
       \/ h \in Refs /\ DropRef(h)

\* sem_init, sem_wait, sem_trywait, sem_post or sem_destroy on an address
\* that is not mapped: the process is killed by SIGSEGV.
Segv(h, a) ==
    /\ Alive
    /\ ~Mapped(a)
    /\ \/ hst[h] = "ready" /\ haddr[h] = a /\ h \in IpcHandles
       \/ hst[h] = "none" /\ h \in IpcHandles \cap Owners
    /\ world' = "crashed"
    /\ Record(Event("segv", h, a, "0", "signal"))
    /\ UNCHANGED <<lifecycle, count, osDeadlock, registry, hst, haddr, debugAssertions,
                   faults, initCalls, destroyCalls, destroyedBy, initVal, ledger, seq>>

\* A program that puts unnamed semaphores into a shared mapping.
InitIpc ==
    /\ world = "unnamed"
    /\ debugAssertions \in BOOLEAN
    /\ SemIdle
    /\ offTBits = U64Bits
    /\ mapOpts = [NewMapOptions EXCEPT !.read = TRUE, !.write = TRUE, !.shared = TRUE]
    /\ mst = [m \in Maps |-> "none"]
    /\ mbase = [m \in Maps |-> NoAddr]
    /\ mlen = [m \in Maps |-> 0]
    /\ region = [b \in Bases |-> 0]
    /\ munmaps = [m \in Maps |-> 0]
    /\ lastMap = NoMapEvent
    /\ ShmIdle

NextIpc ==
    \/ \E m \in Maps : IpcMap(m)
    \/ \E m \in Maps : IpcUnmap(m)
    \/ \E h \in IpcHandles \cap Owners, a \in Addrs, value \in 0..1 : IpcNew(h, a, value)
    \/ \E h \in IpcHandles \cap Refs, a \in Addrs : IpcRefNew(h, a)
    \/ \E h \in IpcHandles : IpcUse(h)
    \/ \E h \in IpcHandles : IpcDrop(h)
    \/ \E h \in IpcHandles, a \in Addrs : Segv(h, a)

SpecIpc == InitIpc /\ [][NextIpc]_vars

(***************************************************************************)
(* The semaphore as a lock between processes: one Owner and the References *)
(* made on the Owner's address, the count initialized to 1.  A process     *)
(* enters its critical section when its wait returns and posts once when   *)
(* it leaves; no handle is dropped while the lock is in use.               *)
(***************************************************************************)

\* The processes that take part: the Owner and every Reference.
Lockers == {"o1"} \cup Refs

\* The Owner's process creates the lock: Semaphore::new(a, 1).
LockNew(a) == crit["o1"] = "out" /\ New("o1", a, 1)

\* Another process wraps the address the Owner initialized.
LockRefNew(h) ==
    /\ hst["o1"] \in {"ready", "blocked"}
    /\ Valid(haddr["o1"])
    /\ RefNew(h, haddr["o1"])

\* wait() before the critical section; the process is inside once it returns.
Enter(h) == crit[h] = "out" /\ Wait(h)

\* post(), once, on leaving the critical section.
Leave(h) == crit[h] = "in" /\ Post(h)

InitMutex ==
    /\ world = "unnamed"
    /\ debugAssertions \in BOOLEAN
    /\ SemBlank
    /\ crit = [h \in Handles |-> IF h \in Lockers THEN "out" ELSE "off"]
    /\ offTBits = U64Bits
    /\ MapIdle
    /\ ShmIdle

NextMutex ==
    \/ \E a \in Addrs : LockNew(a)
    \/ \E h \in Refs : LockRefNew(h)
    \/ \E h \in Lockers : Enter(h)
    \/ \E h \in Lockers : WaitWake(h)
    \/ \E h \in Lockers : Interrupt(h)
    \/ \E h \in Lockers : WaitDeadlock(h)
    \/ \E a \in Addrs : DetectDeadlock(a)
    \/ \E h \in Lockers : Leave(h)

SpecMutex == InitMutex /\ [][NextMutex]_vars

(***************************************************************************)
(* Properties.  A step of the model is the operation named by last', so a  *)
(* property of an operation reads the state it started in unprimed and the *)
(* state it left primed.                                                   *)
(***************************************************************************)

\* The step is a call of `op` (not the return of a suspended wait) by handle h.
Calls(op, h) == last'.op = op /\ last'.h = h /\ hst[h] = "ready"

\* `last` is a successful post on block a.
PostedOn(a) ==
    last.op = "post" /\ last.a = a /\ last.res = "unit" /\ last.errno = "0"

\* C1: after Semaphore::new(addr, N) succeeds, as long as nothing but
\* try_wait touches that control block, the first N try_wait calls return Ok
\* and call N+1 returns the would-block error.  seq[a] is the number of the
\* try_wait in `last`, initVal[a] is N.
C1_TryWaitCountsDown ==
    \A a \in Addrs :
        (last.op = "try_wait" /\ last.a = a /\ seq[a] >= 1) =>
            /\ seq[a] <= initVal[a] => last.res = "Ok"
            /\ seq[a] = initVal[a] + 1 => last.res = "WouldBlock"

C1_Witness ==
    \E a \in Addrs :
        /\ last.op = "try_wait" /\ last.a = a
        /\ initVal[a] = SemValueMax
        /\ seq[a] = SemValueMax + 1
        /\ last.res = "WouldBlock"

\* C2: an Owner and a Reference on the same address act on one count.  From
\* count 1, Owner.wait then Reference.post leaves the count at 1, and the
\* Owner's try_wait that follows returns Ok; a Reference.wait on a block with
\* a live Owner and count >= 1 returns without suspending and takes 1.
C2_SharedCount ==
    /\ "w1" \in trail => count[last.a] = 0
    /\ "w1p" \in trail => count[last.a] = 1
    /\ "w1pt" \in trail => last.res = "Ok" /\ count[last.a] = 0
    /\ "rw" \in trail => last.res = "unit" /\ hst[last.h] = "ready"
    /\ (last.op = "wait" /\ last.res = "blocked") => count[last.a] = 0

C2_Witness ==
    /\ "w1pt" \in trail
    /\ last.res = "Ok"
    /\ \E r \in Refs : hst[r] = "ready" /\ haddr[r] = last.a

\* C3 as claimed: on an initialized semaphore in any count state, post
\* succeeds and adds 1, and a try_wait or wait called right after it on the
\* same block succeeds without suspending and gives back the count the block
\* had before the post.
C3_PostThenWaitAnyCount ==
    [][\A h \in Handles :
          LET a == haddr[h] IN
          /\ (Calls("post", h) /\ Valid(a)) =>
                 /\ last'.res = "unit" /\ last'.errno = "0"
                 /\ count'[a] = count[a] + 1
          /\ ((Calls("wait", h) \/ Calls("try_wait", h)) /\ Valid(a) /\ PostedOn(a)) =>
                 /\ last'.res \in {"Ok", "unit"}
                 /\ hst'[h] = "ready"
                 /\ count'[a] = count[a] - 1
      ]_vars

\* C3, amended: the same for every count below SEM_VALUE_MAX at the post.
C3_PostThenWait ==
    [][\A h \in Handles :
          LET a == haddr[h] IN
          /\ (Calls("post", h) /\ Valid(a) /\ count[a] < SemValueMax) =>
                 /\ last'.res = "unit" /\ last'.errno = "0"
                 /\ count'[a] = count[a] + 1
          /\ ((Calls("wait", h) \/ Calls("try_wait", h)) /\ Valid(a) /\ PostedOn(a)) =>
                 /\ last'.res \in {"Ok", "unit"}
                 /\ hst'[h] = "ready"
                 /\ count'[a] = count[a] - 1
      ]_vars

C3_Witness ==
    /\ "pt" \in trail
    /\ last.op = "wait"
    /\ last.h \in Nameds
    /\ last.res = "unit"
    /\ count[last.a] = SemValueMax - 1

\* C4: try_wait never suspends its caller.  Called on an initialized block,
\* whatever other handles' wait and post did before, it returns the
\* would-block error only when the count is 0 at the call, and leaves it 0;
\* it returns Ok only when the count is positive, and takes exactly 1; and it
\* returns one of the two unless the OS reports a deadlock, in which case it
\* panics and returns nothing.
C4_TryWaitNeverBlocks ==
    [][\A h \in Owners :
          LET a == haddr[h] IN
          (Calls("try_wait", h) /\ Valid(a)) =>
              /\ hst'[h] = "ready"
              /\ last'.res = "WouldBlock" => count[a] = 0 /\ count'[a] = 0
              /\ last'.res = "Ok" => count[a] > 0 /\ count'[a] = count[a] - 1
              /\ last'.res \notin {"Ok", "WouldBlock"} =>
                     last'.res = "panic" /\ last'.errno = "EDEADLK"
      ]_vars

C4_Witness ==
    /\ last.op = "try_wait"
    /\ last.res = "WouldBlock"
    /\ Valid(last.a)
    /\ \E r \in Refs : hst[r] = "blocked" /\ haddr[r] = last.a

\* C5 as claimed: the count of an initialized block is never negative and is
\* its initial value plus the posts that completed minus the wait and
\* try_wait calls that returned success.
C5_CountIsLedger ==
    \A a \in Blocks :
        /\ count[a] >= 0
        /\ Valid(a) => count[a] = ledger[a]

\* C7 as claimed: a wait, try_wait or post whose OS call fails with anything
\* but try_wait's EAGAIN ends in a panic, never in a normal return.
C7_OsFailurePanics ==
    (last.op \in {"wait", "try_wait", "post"} /\ last.errno \notin {"0", "EAGAIN"})
        => last.res = "panic"

\* C8: when the OS reports EDEADLK to wait or try_wait, the operation panics
\* and every count is as it was.
C8_DeadlockPanics ==
    [][(last'.op \in {"wait", "try_wait"} /\ last'.errno = "EDEADLK") =>
           /\ last'.res = "panic"
           /\ count' = count
      ]_vars

C8_Witness ==
    /\ last.op = "try_wait"
    /\ last.errno = "EDEADLK"
    /\ last.res = "panic"
    /\ ~debugAssertions

\* C9: sem_destroy is issued for an Owner handle exactly once, by the drop of
\* that handle and not before; wait, try_wait and post never change a
\* lifecycle state; a control block changes state only to Initialized (by
\* new) or to Destroyed (by the Owner's drop).
C9_DestroyOnceOnDrop ==
    [][/\ \A h \in Owners :
             /\ destroyedBy'[h] = IF hst'[h] = "dropped" THEN 1 ELSE 0
             /\ destroyedBy'[h] # destroyedBy[h] =>
                    /\ last'.op = "drop" /\ last'.h = h
                    /\ destroyCalls'[haddr[h]] = destroyCalls[haddr[h]] + 1
       /\ last'.op \in {"wait", "try_wait", "post"} => lifecycle' = lifecycle
       /\ \A a \in Addrs :
             lifecycle'[a] # lifecycle[a] =>
                 \/ last'.op = "new" /\ last'.a = a /\ lifecycle'[a] = "Init"
                 \/ last'.op = "drop" /\ last'.a = a /\ lifecycle'[a] = "Destroyed"
      ]_vars

C9_Witness ==
    \E h \in Owners :
        /\ last.op = "drop" /\ last.h = h
        /\ hst[h] = "dropped"
        /\ destroyedBy[h] = 1
        /\ lifecycle[haddr[h]] = "Destroyed"

\* C10 as claimed: no two live Owner handles wrap the same address, so no
\* control block is initialized while initialized or destroyed twice.
C10_SingleOwner ==
    \A a \in Addrs : Cardinality(LiveOwners(a)) <= 1

\* C10, amended: Owner handles are never duplicated: each successful
\* Semaphore::new makes one Owner and each Owner issues one sem_destroy, so
\* on every block the live Owners plus the sem_destroy calls are the
\* successful sem_init calls; a block that new was called on once has at most
\* one Owner and is destroyed at most once.
C10_OwnersAreInits ==
    \A a \in Addrs :
        /\ Cardinality(LiveOwners(a)) + destroyCalls[a] = initCalls[a]
        /\ initCalls[a] <= 1 =>
               /\ Cardinality(LiveOwners(a)) <= 1
               /\ destroyCalls[a] <= 1

C10_Witness ==
    \E a \in Addrs :
        /\ initCalls[a] = 2
        /\ Cardinality(LiveOwners(a)) = 1
        /\ destroyCalls[a] = 1

\* C6: MapOptions::map with an offset above off_t's maximum returns
\* InvalidInput without issuing mmap and without creating a region; with any
\* offset up to the maximum it does not return InvalidInput, and mmap is
\* issued with exactly that offset.
C6_OffsetChecked ==
    [][lastMap'.call = "map" =>
          IF lastMap'.asked > OffTMax(offTBits)
          THEN /\ lastMap'.res = "InvalidInput"
               /\ ~lastMap'.issued
               /\ region' = region /\ mst' = mst
          ELSE /\ lastMap'.res # "InvalidInput"
               /\ lastMap'.issued
               /\ lastMap'.offset = lastMap'.asked
      ]_vars

C6_Witness ==
    /\ lastMap.call = "map"
    /\ lastMap.asked = OffTMax(offTBits) + 1
    /\ lastMap.res = "InvalidInput"
    /\ offTBits < U64Bits
    /\ \E m \in Maps : mst[m] = "live"

\* An operation of handle h took this step.
By(h) == last'.h = h

\* C11: a Reference never changes a control block's lifecycle.  Creating it
\* makes no sem_init call and leaves every count and state as it was;
\* dropping it makes no sem_destroy call; the only other operations it has
\* are wait and post, and these change nothing but the count of the block it
\* wraps (and whether its own thread is suspended).
C11_RefLeavesLifecycle ==
    [][\A r \in Refs :
          /\ destroyedBy'[r] = 0
          /\ By(r) =>
                /\ last'.op \in {"ref_new", "ref_drop", "wait", "post"}
                /\ last'.inits = <<>>
                /\ lifecycle' = lifecycle
                /\ initCalls' = initCalls
                /\ destroyCalls' = destroyCalls
                /\ registry' = registry
                /\ \A g \in Handles \ {r} : hst'[g] = hst[g] /\ haddr'[g] = haddr[g]
                /\ last'.op \in {"ref_new", "ref_drop"} =>
                       count' = count /\ osDeadlock' = osDeadlock
                /\ last'.op \in {"wait", "post"} =>
                       /\ haddr' = haddr
                       /\ \A b \in Blocks \ {haddr[r]} : count'[b] = count[b]
      ]_vars

C11_Witness ==
    \E r \in Refs :
        /\ last.op = "ref_drop" /\ last.h = r
        /\ hst[r] = "dropped"
        /\ Valid(haddr[r])
        /\ LiveOwners(haddr[r]) # {}
        /\ count[haddr[r]] > 0
        /\ destroyCalls[haddr[r]] = 0

\* C13 as claimed: a thread suspended in wait comes back from wait only
\* because the count became positive, and takes 1 from it; while the count
\* is 0 it stays suspended.
C13_ReleasedOnlyByPost ==
    [][\A h \in Handles :
          (hst[h] = "blocked" /\ hst'[h] = "ready" /\ last'.res = "unit") =>
              /\ count[haddr[h]] > 0
              /\ count'[haddr[h]] = count[haddr[h]] - 1
      ]_vars

\* C14 as claimed: with create_new set, open succeeds exactly when the name
\* is absent, whatever `create` says; on an existing name it fails with
\* EEXIST and changes nothing; a successful create_new open is the only
\* handle on the object it made.
C14_CreateNewIffAbsent ==
    [][(last'.op = "open" /\ last'.opts.create_new) =>
             LET n == last'.name
                 h == last'.h
             IN  /\ last'.res = "Ok" <=> registry[n] = NoAddr
                 /\ registry[n] # NoAddr =>
                        /\ last'.errno = "EEXIST"
                        /\ count' = count /\ registry' = registry /\ hst' = hst
                 /\ last'.res = "Ok" =>
                        /\ hst'[h] = "ready" /\ haddr'[h] = registry'[n]
                        /\ lifecycle[registry'[n]] = "Uninit"
                        /\ \A g \in Nameds \ {h} :
                               hst'[g] \in {"ready", "blocked"} => haddr'[g] # haddr'[h]
         ]_vars

\* C14, amended: with create_new set, open fails with EEXIST exactly when the
\* name exists, and then changes nothing; on an absent name it makes a new
\* semaphore with the requested value, of which it is the only handle, unless
\* the OS refuses the request for another reason: it does refuse, with
\* EINVAL, a value above SEM_VALUE_MAX.
C14_CreateNew ==
    [][(last'.op = "open" /\ last'.opts.create_new) =>
             LET n == last'.name
                 h == last'.h
             IN  /\ last'.errno = "EEXIST" <=> registry[n] # NoAddr
                 /\ last'.res = "Ok" <=> last'.errno = "0"
                 /\ last'.res # "Ok" =>
                        count' = count /\ registry' = registry /\ hst' = hst
                 /\ registry[n] = NoAddr =>
                        /\ last'.opts.value > SemValueMax => last'.errno = "EINVAL"
                        /\ (last'.opts.value <= SemValueMax /\ FreshKObjs # {}) =>
                               last'.res = "Ok"
                 /\ last'.res = "Ok" =>
                        /\ hst'[h] = "ready" /\ haddr'[h] = registry'[n]
                        /\ lifecycle[registry'[n]] = "Uninit"
                        /\ count'[registry'[n]] = last'.opts.value
                        /\ \A g \in Nameds \ {h} :
                               hst'[g] \in {"ready", "blocked"} => haddr'[g] # haddr'[h]
         ]_vars

C14_Witness ==
    /\ last.op = "open"
    /\ last.opts.create_new /\ ~last.opts.create
    /\ last.errno = "EEXIST"
    /\ registry[last.name] # NoAddr
    /\ count[registry[last.name]] > 0
    /\ \E g \in Nameds : hst[g] = "ready" /\ haddr[g] = registry[last.name]

\* C15: Semaphore::open (no flags) succeeds exactly when the name is in the
\* registry, fails with ENOENT otherwise, and never creates or changes
\* anything; Semaphore::create (O_CREAT, value 0) succeeds whether or not the
\* name exists and leaves the name in the registry; a name leaves the
\* registry only by unlink, so open after create and before unlink succeeds.
C15_OpenNeedsName ==
    [][/\ (last'.op = "open") =>
             LET n == last'.name
                 h == last'.h
             IN  /\ (~last'.opts.create /\ ~last'.opts.create_new) =>
                        /\ last'.res = "Ok" <=> registry[n] # NoAddr
                        /\ last'.res # "Ok" => last'.errno = "ENOENT" /\ hst' = hst
                        /\ last'.res = "Ok" =>
                               hst'[h] = "ready" /\ haddr'[h] = registry[n]
                        /\ registry' = registry /\ count' = count
                        /\ lifecycle' = lifecycle
                 /\ (last'.opts.create /\ ~last'.opts.create_new
                        /\ last'.opts.value = 0) =>
                        /\ last'.res = "Ok"
                        /\ registry'[n] # NoAddr /\ haddr'[h] = registry'[n]
                        /\ registry[n] # NoAddr =>
                               registry' = registry /\ count' = count
       /\ \A n \in Names :
             (registry[n] # NoAddr /\ registry'[n] # registry[n]) =>
                 last'.op = "unlink" /\ last'.res = "Ok" /\ registry'[n] = NoAddr
      ]_vars

C15_Witness ==
    /\ last.op = "open"
    /\ ~last.opts.create /\ ~last.opts.create_new
    /\ last.errno = "ENOENT"
    /\ registry[last.name] = NoAddr
    /\ \E g \in Nameds : hst[g] = "ready" /\ Valid(haddr[g])

\* C20: Semaphore::new makes one sem_init call, with pshared = 1.  When the
\* OS refuses it, new returns that error, no handle comes into being, nothing
\* about any control block changes and no sem_destroy is issued; a handle
\* that was never made never issues sem_destroy.
C20_NewInitsOnce ==
    [][/\ (last'.op = "new") =>
             /\ last'.inits = <<1>>
             /\ last'.res = "Ok" <=> last'.errno = "0"
             /\ last'.errno # "0" =>
                    /\ last'.res = "Err"
                    /\ hst' = hst /\ haddr' = haddr
                    /\ lifecycle' = lifecycle /\ count' = count
                    /\ initCalls' = initCalls
                    /\ destroyCalls' = destroyCalls /\ destroyedBy' = destroyedBy
             /\ last'.errno = "0" =>
                    /\ hst'[last'.h] = "ready" /\ haddr'[last'.h] = last'.a
                    /\ initCalls'[last'.a] = initCalls[last'.a] + 1
       /\ \A h \in Owners : hst'[h] = "none" => destroyedBy'[h] = 0
      ]_vars

C20_Witness ==
    /\ last.op = "new"
    /\ last.errno = "ENOSYS"
    /\ last.res = "Err"
    /\ lifecycle[last.a] = "Uninit"
    /\ destroyCalls[last.a] = 0
    /\ \A h \in Owners : hst[h] = "none"

\* C19: a MemoryMap comes into being only by a successful map or
\* map_anonymous, with the base mmap returned and the length that was asked
\* for; while it lives its base and length never change; it is released by
\* one munmap call, made by its drop, on exactly that base and length; no
\* request maps a region of length 0, or with a bad descriptor or an offset
\* that is too large, and a map request that fails for these or any other
\* reason makes no MemoryMap, no region and no munmap call.
C19_ReleasedOnceOnDrop ==
    [][/\ \A m \in Maps :
             /\ munmaps'[m] = IF mst'[m] = "dropped" THEN 1 ELSE 0
             /\ (mst[m] = "live" /\ mst'[m] = "live") =>
                    mbase'[m] = mbase[m] /\ mlen'[m] = mlen[m]
             /\ (mst[m] = "none" /\ mst'[m] # "none") =>
                    /\ mst'[m] = "live"
                    /\ lastMap'.call \in {"map", "map_anonymous"}
                    /\ lastMap'.res = "Ok" /\ lastMap'.len > 0
                    /\ mbase'[m] = lastMap'.base /\ mlen'[m] = lastMap'.len
                    /\ region[mbase'[m]] = 0 /\ region'[mbase'[m]] = mlen'[m]
             /\ (mst[m] = "live" /\ mst'[m] # "live") =>
                    /\ mst'[m] = "dropped"
                    /\ lastMap'.call = "drop"
                    /\ lastMap'.base = mbase[m] /\ lastMap'.len = mlen[m]
                    /\ region[mbase[m]] = mlen[m] /\ region'[mbase[m]] = 0
                    /\ \A n \in Maps \ {m} : mst'[n] = mst[n]
             /\ mst[m] = "dropped" => mst'[m] = "dropped"
       /\ lastMap'.call \in {"map", "map_anonymous"} =>
             /\ munmaps' = munmaps
             /\ (lastMap'.fd = "bad_fd" \/ lastMap'.asked > OffTMax(offTBits)) =>
                    lastMap'.res # "Ok"
             /\ lastMap'.res = "Ok" <=> lastMap'.len > 0
             /\ lastMap'.res # "Ok" =>
                    mst' = mst /\ mbase' = mbase /\ mlen' = mlen /\ region' = region
             /\ lastMap'.res = "Ok" => \E m \in Maps : mst[m] = "none" /\ mst'[m] = "live"
      ]_vars

C19_Witness ==
    /\ lastMap.call = "drop"
    /\ lastMap.len = MaxLen
    /\ \E m, n \in Maps :
          /\ mst[m] = "dropped" /\ munmaps[m] = 1 /\ mbase[m] = lastMap.base
          /\ mst[n] = "live" /\ munmaps[n] = 0 /\ region[mbase[n]] = mlen[n]

\* The step is a shared memory operation; the step is a mapping operation.
ShmStep == lastShm' # lastShm
MapStep == lastMap' # lastMap

\* C16: unlinking a name leaves the handles that hold the object open as they
\* were.  shm::unlink changes no handle, no size, and no object that is still
\* open; on every open SharedMemory, whether its name is still linked or not,
\* set_len succeeds exactly when the handle was opened for writing and sets
\* the size, and metadata succeeds and reports the size; its object stays
\* live until the handle is closed.  sem::named::unlink changes no handle and
\* no count; on every open named Semaphore the object stays initialized, post
\* below SEM_VALUE_MAX adds 1 and wait on a positive count takes 1 without
\* suspending.  Only opens by name see the unlink: they fail, or make a new
\* object.
C16_UnlinkKeepsHandles ==
    [][/\ (ShmStep /\ lastShm'.op = "unlink") =>
             /\ fst' = fst /\ fstore' = fstore /\ fwrite' = fwrite
             /\ storeLen' = storeLen /\ setTo' = setTo
             /\ \A s \in Stores : ShmOpenOn(s, NoHandle) # {} => storeSt'[s] = storeSt[s]
       /\ (ShmStep /\ lastShm'.op = "set_len") =>
             LET f == lastShm'.f IN
             /\ lastShm'.res = "Ok" <=> fwrite[f]
             /\ lastShm'.res = "Ok" => storeLen'[fstore[f]] = lastShm'.len
             /\ fst'[f] = "open"
       /\ (ShmStep /\ lastShm'.op = "metadata") =>
             LET f == lastShm'.f IN
             /\ lastShm'.res = "Ok"
             /\ lastShm'.len = storeLen[fstore[f]]
             /\ fst'[f] = "open"
       /\ \A f \in ShmHandles : fst'[f] = "open" => storeSt'[fstore'[f]] = "live"
       /\ (ShmStep /\ lastShm'.op = "open" /\ shmReg[lastShm'.name] = NoAddr) =>
             /\ lastShm'.res = "Ok" =>
                    /\ lastShm'.opts.create \/ lastShm'.opts.create_new
                    /\ storeSt[lastShm'.store] = "none"
             /\ (~lastShm'.opts.create /\ ~lastShm'.opts.create_new) =>
                    lastShm'.errno = "ENOENT"
       /\ last'.op = "unlink" =>
             /\ hst' = hst /\ haddr' = haddr /\ count' = count
             /\ \A k \in KObjs : OpenOn(k, NoHandle) # {} => lifecycle'[k] = lifecycle[k]
       /\ \A h \in Nameds :
             LET a == haddr[h] IN
             /\ hst'[h] \in {"ready", "blocked"} => lifecycle'[haddr'[h]] = "Init"
             /\ (Calls("post", h) /\ count[a] < SemValueMax) =>
                    /\ last'.res = "unit" /\ last'.errno = "0"
                    /\ count'[a] = count[a] + 1
             /\ (Calls("wait", h) /\ count[a] > 0) =>
                    /\ last'.res = "unit" /\ last'.errno = "0"
                    /\ hst'[h] = "ready"
                    /\ count'[a] = count[a] - 1
      ]_vars

C16_Witness ==
    /\ lastShm.op = "metadata"
    /\ lastShm.res = "Ok"
    /\ lastShm.len = MaxShmLen
    /\ setTo[lastShm.store] = MaxShmLen
    /\ \A n \in ShmNames : shmReg[n] = NoAddr
    /\ storeSt[lastShm.store] = "live"
    /\ \E s \in Stores \ {lastShm.store} : storeSt[s] = "none"

\* C17: metadata reports the size of the latest successful set_len on the
\* same object, whichever handle made it; try_clone gives a handle on the
\* object of the handle it was called on; closing a handle changes no other
\* handle and no size, and an object is released only when no open handle is
\* left on it.
C17_SetLenShared ==
    [][/\ (ShmStep /\ lastShm'.op = "metadata") =>
             LET s == fstore[lastShm'.f] IN
             /\ lastShm'.res = "Ok"
             /\ setTo[s] >= 0 => lastShm'.len = setTo[s]
       /\ \A s \in Stores :
             setTo'[s] # setTo[s] =>
                 /\ ShmStep /\ lastShm'.op = "set_len" /\ lastShm'.res = "Ok"
                 /\ fstore[lastShm'.f] = s
                 /\ setTo'[s] = lastShm'.len
       /\ (ShmStep /\ lastShm'.op = "set_len" /\ lastShm'.res = "Ok") =>
             setTo'[fstore[lastShm'.f]] = lastShm'.len
       /\ (ShmStep /\ lastShm'.op = "try_clone" /\ lastShm'.res = "Ok") =>
             LET g == lastShm'.f IN
             /\ fst[g] = "none" /\ fst'[g] = "open"
             /\ \E f \in ShmHandles : fst[f] = "open" /\ fstore[f] = fstore'[g]
             /\ storeSt' = storeSt /\ storeLen' = storeLen /\ setTo' = setTo
             /\ \A f \in ShmHandles \ {g} : fst'[f] = fst[f] /\ fstore'[f] = fstore[f]
       /\ (ShmStep /\ lastShm'.op = "close") =>
             LET f == lastShm'.f IN
             /\ fst'[f] = "closed"
             /\ \A g \in ShmHandles \ {f} : fst'[g] = fst[g] /\ fstore'[g] = fstore[g]
             /\ storeLen' = storeLen /\ setTo' = setTo /\ shmReg' = shmReg
             /\ ShmOpenOn(fstore[f], f) # {} => storeSt'[fstore[f]] = "live"
       /\ \A s \in Stores :
             storeSt'[s] = "released" =>
                 \A g \in ShmHandles : fst'[g] = "open" => fstore'[g] # s
      ]_vars

C17_Witness ==
    /\ lastShm.op = "metadata"
    /\ lastShm.f = ShmOrder[2]
    /\ lastShm.len = MaxShmLen
    /\ fst[ShmOrder[1]] = "closed"
    /\ fstore[ShmOrder[1]] = fstore[ShmOrder[2]]
    /\ \A n \in ShmNames : shmReg[n] = NoAddr
    /\ \A s \in Stores \ {lastShm.store} : storeSt[s] = "none"

\* C18: MapOptions::map borrows the backing handle.  The map call changes no
\* SharedMemory handle and no shared memory object, so the handle it was
\* given is still open afterwards; closing a handle changes no MemoryMap and
\* no mapped region; every live MemoryMap has its region mapped with its
\* length until its own drop.
C18_MapBorrowsHandle ==
    [][/\ (MapStep /\ lastMap'.call = "map") =>
             /\ fst[lastMap'.fd] = "open" /\ fst'[lastMap'.fd] = "open"
             /\ fst' = fst /\ fstore' = fstore /\ fwrite' = fwrite
             /\ storeSt' = storeSt /\ storeLen' = storeLen /\ shmReg' = shmReg
       /\ (ShmStep /\ lastShm'.op = "close") =>
             /\ mst' = mst /\ mbase' = mbase /\ mlen' = mlen
             /\ region' = region /\ munmaps' = munmaps
       /\ \A m \in Maps :
             /\ mst'[m] = "live" => mlen'[m] > 0 /\ region'[mbase'[m]] = mlen'[m]
             /\ (mst[m] = "live" /\ mst'[m] # "live") =>
                    MapStep /\ lastMap'.call = "drop" /\ lastMap'.base = mbase[m]
      ]_vars

C18_Witness ==
    /\ lastShm.op = "close"
    /\ lastMap.call = "map"
    /\ lastMap.res = "Ok"
    /\ lastMap.fd = lastShm.f
    /\ \A f \in ShmHandles : fst[f] # "open"
    /\ \E m \in Maps :
          /\ mst[m] = "live"
          /\ mbase[m] = lastMap.base
          /\ mlen[m] = lastMap.len
          /\ region[mbase[m]] = mlen[m]

\* A handle the program can still call: made and not dropped.
Usable(h) == hst[h] \in {"ready", "blocked"}

C22_OptionsTranslate ==
    [][/\ lastMap'.call \in {"map", "map_anonymous"} =>
             /\ lastMap'.prot \subseteq {"PROT_READ", "PROT_WRITE", "PROT_EXEC"}
             /\ "PROT_READ" \in lastMap'.prot <=> mapOpts.read
             /\ "PROT_WRITE" \in lastMap'.prot <=> mapOpts.write
             /\ "PROT_EXEC" \in lastMap'.prot <=> mapOpts.exec
             /\ "MAP_SHARED" \in lastMap'.flags <=> mapOpts.shared
             /\ "MAP_PRIVATE" \in lastMap'.flags <=> ~mapOpts.shared
             /\ "MAP_FIXED" \in lastMap'.flags <=> mapOpts.fixed
             /\ lastMap'.flags \ {"MAP_SHARED", "MAP_PRIVATE", "MAP_FIXED"} =
                    IF lastMap'.call = "map" THEN {"MAP_FILE"} ELSE {"MAP_ANON"}
             /\ mapOpts' = mapOpts
       /\ mapOpts' # mapOpts => lastMap'.call = "set"
      ]_vars

C22_Witness ==
    /\ lastMap.call = "map"
    /\ lastMap.res = "Ok"
    /\ lastMap.prot = {"PROT_READ", "PROT_EXEC"}
    /\ lastMap.flags = {"MAP_FILE", "MAP_SHARED", "MAP_FIXED"}
    /\ mapOpts.read /\ mapOpts.exec /\ ~mapOpts.write
    /\ \A m \in Maps : mst[m] = "live"

\* C21 as claimed: with the count initialized to 1 and every process
\* entering only after a returned wait and posting once on leaving, at most
\* one process is inside the critical section in every reachable state.
C21_MutualExclusion ==
    Cardinality({h \in Lockers : crit[h] = "in"}) <= 1

\* The same in a build with debug assertions, where an interrupted wait
\* panics instead of returning.
C21_DebugMutualExclusion ==
    debugAssertions => C21_MutualExclusion

\* A process is inside and the other one is suspended in its wait.
C21_Witness ==
    /\ crit["o1"] = "in"
    /\ hst["r1"] = "blocked"
    /\ count[haddr["o1"]] = 0

====
